---- MODULE Spec2Model ----
(***************************************************************************)
(* A model of src/matrix.rs: Matrix<T>, a row-major 2D matrix kept in a    *)
(* flat Vec<T>, with its constructors (with_val, new), its observers       *)
(* (rows, cols, size), the checked accessors (get, get_mut, set) and the   *)
(* Index<(usize, usize)> operator.                                         *)
(*                                                                         *)
(* usize arithmetic keeps its width: the largest usize is UsizeMax.  An    *)
(* overflowing `*` or `+` panics when the build has overflow checks (debug *)
(* profile) and wraps modulo UsizeMax + 1 when it has not (release         *)
(* profile); which of the two holds is fixed for a whole run by the        *)
(* variable overflow_checks.  A panic ends the run.                        *)
(***************************************************************************)
EXTENDS Integers, Sequences, FiniteSets

\* ---------------------------------------------------------------- bounds
\* usize::MAX of the model's machine word (a 2-bit usize).  Every usize
\* value is tried as a dimension and as a row or column index.
UsizeMax == 3

\* usize arithmetic is modulo UsizeMax + 1.
Word == UsizeMax + 1

\* The usize values the constructors and the accessors are called with.
Dims == 0 .. UsizeMax
Coords == (0 .. UsizeMax) \X (0 .. UsizeMax)

\* The element type T, instantiated with a two-valued type whose
\* Default::default() is 0.
T == {0, 1}
default == 0

\* ------------------------------------------------------ results of calls
None == [tag |-> "None"]
Some(i, v) == [tag |-> "Some", idx |-> i, val |-> v]
Panic == [tag |-> "Panic"]
Ok == [tag |-> "Ok"]
Err == [tag |-> "Err", msg |-> "Invalid Index"]

\* ------------------------------------------------------ usize arithmetic
Overflows(x) == x > UsizeMax
Wrap(x) == x % Word

\* ------------------------------------------------------------ Vec<T>
\* vec![val; n]
vec_from_elem(val, n) == [i \in 1 .. n |-> val]

\* <[T]>::get(i) / <[T]>::get_mut(i): None when i is not below the length.
\* A reference is modelled by the position it points at and the value there.
slice_get(data, i) == IF i < Len(data) THEN Some(i, data[i + 1]) ELSE None

\* <[T]>::index(i): panics when i is not below the length.
slice_index(data, i) == IF i < Len(data) THEN Some(i, data[i + 1]) ELSE Panic

\* ------------------------------------------------------------ Matrix<T>
\* Matrix { data, rows, cols }; Panic when `rows * cols` overflows in a
\* build with overflow checks, the wrapped product as length otherwise.
with_val(r, c, val, checks) ==
    IF checks /\ Overflows(r * c)
    THEN Panic
    ELSE [tag |-> "Ok",
          mat |-> [data |-> vec_from_elem(val, Wrap(r * c)), rows |-> r, cols |-> c]]

new(r, c, checks) ==
    IF checks /\ Overflows(r * c)
    THEN Panic
    ELSE [tag |-> "Ok",
          mat |-> [data |-> vec_from_elem(default, Wrap(r * c)), rows |-> r, cols |-> c]]

rows(m) == m.rows

cols(m) == m.cols

size(m) == Len(m.data)

\* self.data.get((self.cols * coord.0) + coord.1)
get(m, coord, checks) ==
    LET p == m.cols * coord[1]
        s == Wrap(p) + coord[2]
    IN  IF checks /\ (Overflows(p) \/ Overflows(s))
        THEN Panic
        ELSE slice_get(m.data, Wrap(s))

\* get_mut linearizing with the row count: (self.rows * coord.0) + coord.1
get_mut_rows(m, coord, checks) ==
    LET p == m.rows * coord[1]
        s == Wrap(p) + coord[2]
    IN  IF checks /\ (Overflows(p) \/ Overflows(s))
        THEN Panic
        ELSE slice_get(m.data, Wrap(s))

\* self.data.get_mut((self.cols * coord.0) + coord.1)
get_mut(m, coord, checks) ==
    LET p == m.cols * coord[1]
        s == Wrap(p) + coord[2]
    IN  IF checks /\ (Overflows(p) \/ Overflows(s))
        THEN Panic
        ELSE slice_get(m.data, Wrap(s))

\* set without the assignment `*x = new_val`
set_no_write(m, coord, new_val, checks) ==
    LET x == get_mut(m, coord, checks)
    IN  CASE x.tag = "Panic" -> [ret |-> Panic, mat |-> m]
          [] x.tag = "None" -> [ret |-> Err, mat |-> m]
          [] x.tag = "Some" -> [ret |-> Ok, mat |-> m]

\* match self.get_mut(coord) { Some(x) => *x = new_val, None => Err(..) }
set(m, coord, new_val, checks) ==
    LET x == get_mut(m, coord, checks)
    IN  CASE x.tag = "Panic" -> [ret |-> Panic, mat |-> m]
          [] x.tag = "None" -> [ret |-> Err, mat |-> m]
          [] x.tag = "Some" ->
                [ret |-> Ok, mat |-> [m EXCEPT !.data[x.idx + 1] = new_val]]

\* index linearizing column-major: (self.cols * coord.1) + coord.0
index_col_major(m, coord, checks) ==
    LET p == m.cols * coord[2]
        s == Wrap(p) + coord[1]
    IN  IF checks /\ (Overflows(p) \/ Overflows(s))
        THEN Panic
        ELSE slice_index(m.data, Wrap(s))

\* &self.data[(self.cols * coord.0) + coord.1]
index(m, coord, checks) ==
    LET p == m.cols * coord[1]
        s == Wrap(p) + coord[2]
    IN  IF checks /\ (Overflows(p) \/ Overflows(s))
        THEN Panic
        ELSE slice_index(m.data, Wrap(s))

\* ------------------------------------------------------------ state
VARIABLES
    pc,               \* "start" (no matrix yet), "live", "panicked"
    overflow_checks,  \* whether the build panics on usize overflow
    mat,              \* the Matrix value
    ctor,             \* the dimensions the constructor was called with
    pre,              \* the Matrix value before the last call
    last              \* the last call: its name, arguments and result

vars == <<pc, overflow_checks, mat, ctor, pre, last>>

NoMatrix == [data |-> <<>>, rows |-> 0, cols |-> 0]

Init ==
    /\ pc = "start"
    /\ overflow_checks \in BOOLEAN
    /\ mat = NoMatrix
    /\ ctor = [rows |-> 0, cols |-> 0]
    /\ pre = NoMatrix
    /\ last = [op |-> "none", coord |-> <<0, 0>>, val |-> default, ret |-> None]

\* let mat = Matrix::with_val(r, c, val);
WithVal(r, c, val) ==
    /\ pc = "start"
    /\ LET res == with_val(r, c, val, overflow_checks)
       IN  /\ pc' = IF res.tag = "Panic" THEN "panicked" ELSE "live"
           /\ mat' = IF res.tag = "Panic" THEN mat ELSE res.mat
           /\ last' = [op |-> "with_val", coord |-> <<r, c>>, val |-> val,
                       ret |-> IF res.tag = "Panic" THEN Panic ELSE Ok]
    /\ ctor' = [rows |-> r, cols |-> c]
    /\ pre' = mat
    /\ UNCHANGED overflow_checks

\* let mat = Matrix::<T>::new(r, c);
New(r, c) ==
    /\ pc = "start"
    /\ LET res == new(r, c, overflow_checks)
       IN  /\ pc' = IF res.tag = "Panic" THEN "panicked" ELSE "live"
           /\ mat' = IF res.tag = "Panic" THEN mat ELSE res.mat
           /\ last' = [op |-> "new", coord |-> <<r, c>>, val |-> default,
                       ret |-> IF res.tag = "Panic" THEN Panic ELSE Ok]
    /\ ctor' = [rows |-> r, cols |-> c]
    /\ pre' = mat
    /\ UNCHANGED overflow_checks

\* mat.get(coord)
Get(coord) ==
    /\ pc = "live"
    /\ LET res == get(mat, coord, overflow_checks)
       IN  /\ pc' = IF res.tag = "Panic" THEN "panicked" ELSE "live"
           /\ last' = [op |-> "get", coord |-> coord, val |-> default, ret |-> res]
    /\ pre' = mat
    /\ UNCHANGED <<overflow_checks, mat, ctor>>

\* if let Some(x) = mat.get_mut(coord) { *x = val; }
GetMutWrite(coord, val) ==
    /\ pc = "live"
    /\ LET x == get_mut(mat, coord, overflow_checks)
       IN  /\ pc' = IF x.tag = "Panic" THEN "panicked" ELSE "live"
           /\ mat' = IF x.tag = "Some"
                     THEN [mat EXCEPT !.data[x.idx + 1] = val]
                     ELSE mat
           /\ last' = [op |-> "get_mut", coord |-> coord, val |-> val, ret |-> x]
    /\ pre' = mat
    /\ UNCHANGED <<overflow_checks, ctor>>

\* mat.set(coord, val)
Set(coord, val) ==
    /\ pc = "live"
    /\ LET res == set(mat, coord, val, overflow_checks)
       IN  /\ pc' = IF res.ret.tag = "Panic" THEN "panicked" ELSE "live"
           /\ mat' = res.mat
           /\ last' = [op |-> "set", coord |-> coord, val |-> val, ret |-> res.ret]
    /\ pre' = mat
    /\ UNCHANGED <<overflow_checks, ctor>>

\* mat[coord]
Index(coord) ==
    /\ pc = "live"
    /\ LET res == index(mat, coord, overflow_checks)
       IN  /\ pc' = IF res.tag = "Panic" THEN "panicked" ELSE "live"
           /\ last' = [op |-> "index", coord |-> coord, val |-> default, ret |-> res]
    /\ pre' = mat
    /\ UNCHANGED <<overflow_checks, mat, ctor>>

Next ==
    \/ \E r \in Dims, c \in Dims, val \in T : WithVal(r, c, val)
    \/ \E r \in Dims, c \in Dims : New(r, c)
    \/ \E coord \in Coords : Get(coord)
    \/ \E coord \in Coords, val \in T : GetMutWrite(coord, val)
    \/ \E coord \in Coords, val \in T : Set(coord, val)
    \/ \E coord \in Coords : Index(coord)

Spec == Init /\ [][Next]_vars

TypeOK ==
    /\ pc \in {"start", "live", "panicked"}
    /\ overflow_checks \in BOOLEAN
    /\ mat.rows \in Dims /\ mat.cols \in Dims
    /\ \A i \in 1 .. Len(mat.data) : mat.data[i] \in T

\* ------------------------------------------------------------ properties
\* A coordinate is in bounds when both of its parts are in range.
InBounds(m, coord) == coord[1] < m.rows /\ coord[2] < m.cols

\* The row-major position of a coordinate, as an unbounded integer.
Lin(m, coord) == coord[1] * m.cols + coord[2]

LinOverflows(m, coord) == Lin(m, coord) > UsizeMax

\* The matrix was built from dimensions whose product fits a usize.
NoWrap(m) == m.rows * m.cols <= UsizeMax

\* C1: get(coord) is Some exactly when row < rows and col < cols, and then
\* refers to position row * cols + col; (row, col) with col >= cols is None
\* even when row * cols + col is below size().  Stated for the calls in which
\* no usize operation overflows, where the linear bounds check alone decides.
C1_GetSomeIffInBounds ==
    (last.op = "get" /\ NoWrap(pre) /\ ~LinOverflows(pre, last.coord)) =>
        /\ last.ret.tag = "Some" <=> InBounds(pre, last.coord)
        /\ last.ret.tag = "Some" => last.ret.idx = Lin(pre, last.coord)

\* C2: set(coord, v) at an out-of-bounds coordinate returns Err("Invalid
\* Index") and leaves data, rows and cols unchanged.  Stated for the calls in
\* which no usize operation overflows.
C2_SetOutOfBoundsRejected ==
    (/\ last.op = "set" /\ ~InBounds(pre, last.coord)
     /\ NoWrap(pre) /\ ~LinOverflows(pre, last.coord)) =>
        /\ last.ret = Err
        /\ mat = pre

\* C3: mat[coord] panics for every coordinate with row >= rows or
\* col >= cols, and returns the element at row * cols + col when in bounds.
\* Stated for the calls in which no usize operation overflows.
C3_IndexPanicsOutOfBounds ==
    (last.op = "index" /\ NoWrap(pre) /\ ~LinOverflows(pre, last.coord)) =>
        /\ ~InBounds(pre, last.coord) => last.ret.tag = "Panic"
        /\ InBounds(pre, last.coord) =>
               /\ last.ret.tag = "Some"
               /\ last.ret.idx = Lin(pre, last.coord)

\* C4: round trip: after set((r, c), v) returned Ok at an in-bounds
\* coordinate, get((r, c)) is Some(v); the same after v was written through
\* the reference get_mut((r, c)) returned.
C4_RoundTrip ==
    /\ (last.op = "set" /\ last.ret = Ok /\ InBounds(pre, last.coord)) =>
           LET g == get(mat, last.coord, overflow_checks)
           IN  g.tag = "Some" /\ g.val = last.val
    /\ (last.op = "get_mut" /\ last.ret.tag = "Some" /\ InBounds(pre, last.coord)) =>
           LET g == get(mat, last.coord, overflow_checks)
           IN  g.tag = "Some" /\ g.val = last.val

\* A successful in-bounds set that changed the value stored there.
C4_Witness ==
    /\ last.op = "set" /\ last.ret = Ok /\ InBounds(pre, last.coord)
    /\ get(pre, last.coord, overflow_checks).tag = "Some"
    /\ get(pre, last.coord, overflow_checks).val # last.val
    /\ get(mat, last.coord, overflow_checks).val = last.val

\* C5: after construction and after any sequence of calls, size() equals
\* rows() * cols(), and rows() and cols() are the constructor's arguments.
C5_SizeIsRowsTimesCols ==
    pc = "live" =>
        /\ size(mat) = rows(mat) * cols(mat)
        /\ rows(mat) = ctor.rows
        /\ cols(mat) = ctor.cols

\* C6: for all rows, cols and v, with_val(rows, cols, v) and new(rows, cols)
\* (v = default) succeed and give a matrix with size() = rows * cols whose
\* elements all equal v; size() = 0 when rows = 0 or cols = 0.
C6_ConstructorsTotal ==
    last.op \in {"with_val", "new"} =>
        /\ last.ret = Ok
        /\ size(mat) = ctor.rows * ctor.cols
        /\ \A i \in 1 .. size(mat) : mat.data[i] = last.val
        /\ (ctor.rows = 0 \/ ctor.cols = 0) => size(mat) = 0

\* C7: get and get_mut never panic, and an out-of-range coordinate whose
\* linearization cols * row + col exceeds the largest usize gives None:
\* neither an overflow panic nor a wrapped index that selects an element.
C7_NoPanicNoWrap ==
    last.op \in {"get", "get_mut"} =>
        /\ last.ret.tag # "Panic"
        /\ (~InBounds(pre, last.coord) /\ LinOverflows(pre, last.coord)) =>
               last.ret.tag = "None"

\* C8: frame: a successful set or get_mut write at an in-bounds coordinate
\* changes that one element only: get at every other in-bounds coordinate
\* returns what it returned before, and rows and cols are unchanged.
C8_WriteFrame ==
    (/\ last.op \in {"set", "get_mut"}
     /\ last.ret.tag \in {"Ok", "Some"}
     /\ InBounds(pre, last.coord)) =>
        /\ rows(mat) = rows(pre)
        /\ cols(mat) = cols(pre)
        /\ \A c \in Coords :
               (c # last.coord /\ InBounds(pre, c)) =>
                   get(mat, c, overflow_checks) = get(pre, c, overflow_checks)

\* C9: the safe accessors agree: get_mut(coord) is Some exactly when
\* get(coord) is, at the same position; set(coord, v) returns Ok exactly
\* when get(coord) is Some and Err("Invalid Index"), its only error, exactly
\* when get(coord) is None.
C9_SafeAccessorsAgree ==
    /\ pc = "live" =>
           \A coord \in Coords, v \in T :
               LET g == get(mat, coord, overflow_checks)
                   gm == get_mut(mat, coord, overflow_checks)
                   s == set(mat, coord, v, overflow_checks)
               IN  /\ gm.tag = "Some" <=> g.tag = "Some"
                   /\ g.tag = "Some" => gm.idx = g.idx
                   /\ s.ret = Ok <=> g.tag = "Some"
                   /\ s.ret = Err <=> g.tag = "None"
                   /\ s.ret \in {Ok, Err, Panic}
    /\ last.op = "set" =>
           /\ last.ret = Ok <=> get(pre, last.coord, overflow_checks).tag = "Some"
           /\ last.ret = Err <=> get(pre, last.coord, overflow_checks).tag = "None"
    /\ last.op = "get_mut" =>
           (last.ret.tag = "Some" <=> get(pre, last.coord, overflow_checks).tag = "Some")

\* A set that was refused at a coordinate where get is None, on a matrix
\* that also has a coordinate where get is Some.
C9_Witness ==
    /\ last.op = "set" /\ last.ret = Err
    /\ get(mat, last.coord, overflow_checks) = None
    /\ \E c \in Coords : get_mut(mat, c, overflow_checks).tag = "Some"

\* C10: for every coordinate whose linearization does not overflow,
\* mat[coord] returns an element exactly when get(coord) is Some, the same
\* element, and panics exactly when get(coord) is None.
C10_IndexAgreesWithGet ==
    /\ pc = "live" =>
           \A coord \in Coords :
               ~LinOverflows(mat, coord) =>
                   LET g == get(mat, coord, overflow_checks)
                       x == index(mat, coord, overflow_checks)
                   IN  /\ x.tag = "Some" <=> g.tag = "Some"
                       /\ x.tag = "Some" => x = g
                       /\ x.tag = "Panic" <=> g.tag = "None"
    /\ (last.op = "index" /\ ~LinOverflows(pre, last.coord)) =>
           LET g == get(pre, last.coord, overflow_checks)
           IN  /\ last.ret.tag = "Some" <=> g.tag = "Some"
               /\ last.ret.tag = "Some" => last.ret = g
               /\ last.ret.tag = "Panic" <=> g.tag = "None"

\* An in-bounds index read that returned an element away from position 0, on
\* a matrix where another non-overflowing coordinate has get return None.
C10_Witness ==
    /\ last.op = "index" /\ last.ret.tag = "Some" /\ last.ret.idx > 0
    /\ InBounds(pre, last.coord)
    /\ ~LinOverflows(pre, last.coord)
    /\ \E c \in Coords :
           /\ ~LinOverflows(mat, c)
           /\ get(mat, c, overflow_checks) = None
====
